---------------------------- MODULE Spec2Model ----------------------------
(* A model of cloudzip's remote range reader (pkg/remote/s3.go), its WebDAV  *)
(* filesystem shim (package dav) and its mount-server command (package cmd). *)
(*                                                                           *)
(* Four specifications share the module, one per component:                  *)
(*   SpecRange  buildRange and the range the backend serves for it           *)
(*   SpecS3     concurrent Download/SizeOf calls on one S3Downloader         *)
(*   SpecDav    the davFS operations over a Tree                             *)
(*   SpecMount  one run of the mount-server process                          *)
(* A component that a specification does not exercise stays in its parked    *)
(* state.                                                                    *)
EXTENDS Integers, Sequences, FiniteSets, TLC

VARIABLES
    \* ---- SpecRange: one Download's range handling
    rpc,            \* position: "parked" | "start" | "ranged" | "done"
    offsetStart,    \* Download's offsetStart argument
    offsetEnd,      \* Download's offsetEnd argument
    objSize,        \* size in bytes of the object the backend holds
    rng,            \* the *string buildRange returned
    body,           \* what GetObject answered for rng
    \* ---- SpecS3: one S3Downloader shared by concurrent callers
    lock,           \* d.lock: 0 when free, else the caller holding it
    serviceCache,   \* d.serviceCache: bucket -> client (named by its region)
    spc,            \* each caller's position in Download/SizeOf
    sreq,           \* each caller's operation and arguments
    ssvc,           \* each caller's svc, as getServiceForBucket returned it
    sres,           \* each caller's returned (value, error)
    sbackend,       \* the error the backend last answered to each caller
    resolveCalls,   \* GetBucketRegionWithClient calls issued, per bucket
    resolveFails,   \* of those, the ones that returned an error
    calls,          \* Download/SizeOf calls begun
    \* ---- SpecDav: one davFS over one Tree
    tree,           \* the paths the Tree holds an entry for
    fsTree,         \* davFS.tree: the Tree the adapter refers to
    treeCalls,      \* calls made into the Tree
    davOps,         \* davFS operations performed
    davLast,        \* the last operation: its arguments and what it returned
    \* ---- SpecMount: one run of the mount-server command
    cfg,            \* the flags and environment the process was started with
    pc,             \* position of Run ("main") and of the adapter goroutine
    cacheDir,       \* Run's cacheDir local
    autoCache,      \* whether cacheDir was generated by Run
    defers,         \* Run's deferred calls, in the order they were deferred
    listener,       \* "none" | "bound"
    buildResult,    \* BuildZipTree: "none" | "running" | "ok" | "failed"
    sigRegistered,  \* whether signal.NotifyContext's handler is installed
    ctxDone,        \* whether the NotifyContext context is cancelled
    adapter,        \* the protocol adapter started: "none" | "nfs" | "webdav"
    err,            \* Run's err variable, shared with the adapter goroutine
    serveResult,    \* what nfs.Serve / dav.Serve itself returned ("none" so far)
    callbacks,      \* the sendCallback calls made, in order, with their outcome
    dieMsg,         \* per thread, why it is dying ("" when it is not)
    cacheRemoved,   \* whether os.RemoveAll(cacheDir) was called
    exit            \* "running" | "exit0" | "die" | "killed"

rangeVars == <<rpc, offsetStart, offsetEnd, objSize, rng, body>>

s3Vars == <<lock, serviceCache, spc, sreq, ssvc, sres, sbackend,
            resolveCalls, resolveFails, calls>>

davVars == <<tree, fsTree, treeCalls, davOps, davLast>>

mountVars == <<cfg, pc, cacheDir, autoCache, defers, listener, buildResult,
               sigRegistered, ctxDone, adapter, err, serveResult, callbacks,
               dieMsg, cacheRemoved, exit>>

vars == <<rangeVars, s3Vars, davVars, mountVars>>

\* what the operations of one component leave alone
notRange == <<s3Vars, davVars, mountVars>>

notS3 == <<rangeVars, davVars, mountVars>>

notDav == <<rangeVars, s3Vars, mountVars>>

notMount == <<rangeVars, s3Vars, davVars>>

-----------------------------------------------------------------------------
(* Strings are sequences of one-character strings, so that formatting and    *)
(* parsing are computed and not assumed.                                     *)

Digit == <<"0", "1", "2", "3", "4", "5", "6", "7", "8", "9">>

DigitChars == {Digit[i] : i \in 1..10}

DigitValue(c) == (CHOOSE i \in 1..10 : Digit[i] = c) - 1

\* fmt's %d verb for a non-negative int64: decimal, no leading zeros.
RECURSIVE FormatInt(_)
FormatInt(n) ==
    IF n < 10 THEN <<Digit[n + 1]>>
    ELSE FormatInt(n \div 10) \o <<Digit[(n % 10) + 1]>>

BytesPrefix == <<"b", "y", "t", "e", "s", "=">>

\* *string: nil, or a pointer to a string
NilString == [isNil |-> TRUE, s |-> <<>>]

StringPtr(s) == [isNil |-> FALSE, s |-> s]

\* A plausible slip: the start-only test made first, so that an end bound
\* given together with a start is dropped.
buildRange_StartFirst(start, end) ==
    IF start # 0
    THEN StringPtr(BytesPrefix \o FormatInt(start) \o <<"-">>)
    ELSE IF end # 0
    THEN StringPtr(BytesPrefix \o <<"-">> \o FormatInt(end))
    ELSE NilString

\* A slip of convention: the end offset taken as exclusive and turned into
\* the last byte wanted.
buildRange_HalfOpen(start, end) ==
    IF start # 0 /\ end # 0
    THEN StringPtr(BytesPrefix \o FormatInt(start) \o <<"-">> \o FormatInt(end - 1))
    ELSE IF start # 0
    THEN StringPtr(BytesPrefix \o FormatInt(start) \o <<"-">>)
    ELSE IF end # 0
    THEN StringPtr(BytesPrefix \o <<"-">> \o FormatInt(end))
    ELSE NilString

buildRange(start, end) ==
    IF start # 0 /\ end # 0
    THEN StringPtr(BytesPrefix \o FormatInt(start) \o <<"-">> \o FormatInt(end))
    ELSE IF start # 0
    THEN StringPtr(BytesPrefix \o FormatInt(start) \o <<"-">>)
    ELSE IF end # 0
    THEN StringPtr(BytesPrefix \o <<"-">> \o FormatInt(end))
    ELSE NilString

-----------------------------------------------------------------------------
(* The backend's reading of a Range header (HTTP byte ranges, as the object  *)
(* store serves them).                                                       *)

RECURSIVE ParseNat(_)
ParseNat(ds) ==
    IF Len(ds) = 0 THEN 0
    ELSE ParseNat(SubSeq(ds, 1, Len(ds) - 1)) * 10 + DigitValue(ds[Len(ds)])

AllDigits(ds) == \A i \in 1..Len(ds) : ds[i] \in DigitChars

HasBytesPrefix(s) ==
    /\ Len(s) >= Len(BytesPrefix)
    /\ SubSeq(s, 1, Len(BytesPrefix)) = BytesPrefix

RangeSpecOf(s) == SubSeq(s, Len(BytesPrefix) + 1, Len(s))

DashAt(t) == CHOOSE i \in 1..Len(t) : t[i] = "-" /\ \A j \in 1..(i - 1) : t[j] # "-"

\* The header split into first-byte-pos and last-byte-pos (either may be empty).
ParseRange(s) ==
    IF ~HasBytesPrefix(s) THEN [ok |-> FALSE, first |-> <<>>, last |-> <<>>]
    ELSE LET t == RangeSpecOf(s) IN
         IF ~(\E i \in 1..Len(t) : t[i] = "-")
         THEN [ok |-> FALSE, first |-> <<>>, last |-> <<>>]
         ELSE LET d == DashAt(t)
                  a == SubSeq(t, 1, d - 1)
                  b == SubSeq(t, d + 1, Len(t))
              IN  [ok |-> AllDigits(a) /\ AllDigits(b) /\ (Len(a) + Len(b) > 0),
                   first |-> a, last |-> b]

WholeObject(size) == [err |-> "nil", lo |-> 0, hi |-> size - 1]

InvalidRange == [err |-> "InvalidRange", lo |-> 0, hi |-> -1]

\* The bytes lo..hi GetObject returns for an object of `size` bytes.
ServeRange(size, r) ==
    IF r.isNil THEN WholeObject(size)
    ELSE LET p == ParseRange(r.s) IN
         IF ~p.ok THEN WholeObject(size)
         ELSE IF Len(p.first) = 0
         THEN \* suffix range: the last n bytes
              LET n == ParseNat(p.last) IN
              IF n = 0 THEN InvalidRange
              ELSE IF n >= size THEN WholeObject(size)
              ELSE [err |-> "nil", lo |-> size - n, hi |-> size - 1]
         ELSE LET a == ParseNat(p.first) IN
              IF Len(p.last) = 0
              THEN IF a >= size THEN InvalidRange
                   ELSE [err |-> "nil", lo |-> a, hi |-> size - 1]
              ELSE LET b == ParseNat(p.last) IN
                   IF b < a THEN WholeObject(size)
                   ELSE IF a >= size THEN InvalidRange
                   ELSE [err |-> "nil", lo |-> a,
                         hi |-> IF b < size - 1 THEN b ELSE size - 1]

BodyLen(b) == b.hi - b.lo + 1

-----------------------------------------------------------------------------
(* S3Downloader: errors, the route cache and its mutex                       *)

NumCallers == 2

MaxCalls == 2

Callers == 1..NumCallers

Buckets == {"A", "B"}

Regions == {"us-east-1", "eu-west-1"}

\* the object every key names, and the (offsetStart, offsetEnd) pairs asked of it
S3Object == [size |-> 4]

S3Ranges == {<<0, 0>>, <<1, 2>>}

NilErr == [aws |-> FALSE, code |-> "nil"]

\* an awserr.Error with the given Code()
AwsErr(code) == [aws |-> TRUE, code |-> code]

\* an error that is no awserr.Error
PlainErr(text) == [aws |-> FALSE, code |-> text]

ErrDoesNotExist == PlainErr("ErrDoesNotExist")

\* what GetObject/HeadObject may answer besides success
ObjectErrors ==
    {AwsErr("NoSuchBucket"), AwsErr("NoSuchKey"), AwsErr("AccessDenied"),
     PlainErr("context canceled")}

\* what GetBucketRegionWithClient may answer besides a region
ResolveErrors == {AwsErr("NoSuchBucket"), PlainErr("context canceled")}

s3IsNotFoundErr(e) ==
    IF e = NilErr THEN FALSE
    ELSE IF e.aws /\ e.code \in {"NoSuchBucket", "NoSuchKey"} THEN TRUE
    ELSE FALSE

\* uri strings: url.Parse splits a well-formed one into host and path
Uris ==
    {[valid |-> TRUE, host |-> b, path |-> "/k"] : b \in Buckets}
    \cup {[valid |-> FALSE, host |-> "", path |-> ""]}

parseUri(uri) ==
    IF uri.valid
    THEN [err |-> NilErr, Bucket |-> uri.host, Path |-> uri.path]
    ELSE [err |-> PlainErr("parse"), Bucket |-> "", Path |-> ""]

Requests ==
    {[op |-> "SizeOf", uri |-> u, offsetStart |-> 0, offsetEnd |-> 0] : u \in Uris}
    \cup {[op |-> "Download", uri |-> u, offsetStart |-> r[1], offsetEnd |-> r[2]] :
             u \in Uris, r \in S3Ranges}

NoRequest == [op |-> "none", uri |-> [valid |-> FALSE, host |-> "", path |-> ""],
              offsetStart |-> 0, offsetEnd |-> 0]

NoValue == [kind |-> "nil", lo |-> 0, hi |-> -1]

BodyValue(b) == [kind |-> "body", lo |-> b.lo, hi |-> b.hi]

SizeValue(n) == [kind |-> "size", lo |-> 0, hi |-> n - 1]

NoResult == [val |-> NoValue, err |-> NilErr]

NoSvc == "none"

BucketOf(p) == parseUri(sreq[p].uri).Bucket

InitS3 ==
    /\ lock = 0
    /\ serviceCache = <<>>
    /\ spc = [p \in Callers |-> "idle"]
    /\ sreq = [p \in Callers |-> NoRequest]
    /\ ssvc = [p \in Callers |-> NoSvc]
    /\ sres = [p \in Callers |-> NoResult]
    /\ sbackend = [p \in Callers |-> NilErr]
    /\ resolveCalls = [b \in Buckets |-> 0]
    /\ resolveFails = [b \in Buckets |-> 0]
    /\ calls = 0

ParkedS3 == InitS3

\* Download lines 91-95 / SizeOf lines 117-122: the call and parseUri
Call(p, r) ==
    /\ spc[p] = "idle"
    /\ calls < MaxCalls
    /\ calls' = calls + 1
    /\ sreq' = [sreq EXCEPT ![p] = r]
    /\ ssvc' = [ssvc EXCEPT ![p] = NoSvc]
    /\ sbackend' = [sbackend EXCEPT ![p] = NilErr]
    /\ IF parseUri(r.uri).err # NilErr
       THEN /\ sres' = [sres EXCEPT ![p] = [val |-> NoValue, err |-> parseUri(r.uri).err]]
            /\ spc' = [spc EXCEPT ![p] = "done"]
       ELSE /\ sres' = [sres EXCEPT ![p] = NoResult]
            /\ spc' = [spc EXCEPT ![p] = "lock"]
    /\ UNCHANGED <<lock, serviceCache, resolveCalls, resolveFails>>
    /\ UNCHANGED notS3

\* A mutex that does not exclude: Lock returns although another caller holds it.
LockAvailable_NoExclusion(p) == TRUE

\* sync.Mutex: Lock returns only when no caller holds the mutex
LockAvailable(p) == lock = 0

\* getServiceForBucket line 50: d.lock.Lock()
Lock(p) ==
    /\ spc[p] = "lock"
    /\ LockAvailable(p)
    /\ lock' = p
    /\ spc' = [spc EXCEPT ![p] = "locked"]
    /\ UNCHANGED <<serviceCache, sreq, ssvc, sres, sbackend, resolveCalls,
                   resolveFails, calls>>
    /\ UNCHANGED notS3

\* getServiceForBucket lines 52-54: the cached client is returned, and the
\* deferred Unlock runs
\* A slip: the cached client is not consulted and the region is resolved
\* again.
CacheHit_Reresolves(p) ==
    /\ spc[p] = "locked"
    /\ BucketOf(p) \in DOMAIN serviceCache
    /\ resolveCalls' = [resolveCalls EXCEPT ![BucketOf(p)] = @ + 1]
    /\ spc' = [spc EXCEPT ![p] = "resolving"]
    /\ UNCHANGED <<lock, serviceCache, sreq, ssvc, sres, sbackend,
                   resolveFails, calls>>
    /\ UNCHANGED notS3

CacheHit(p) ==
    /\ spc[p] = "locked"
    /\ BucketOf(p) \in DOMAIN serviceCache
    /\ ssvc' = [ssvc EXCEPT ![p] = serviceCache[BucketOf(p)]]
    /\ lock' = 0
    /\ spc' = [spc EXCEPT ![p] = "call"]
    /\ UNCHANGED <<serviceCache, sreq, sres, sbackend, resolveCalls,
                   resolveFails, calls>>
    /\ UNCHANGED notS3

\* getServiceForBucket lines 55-58: on a miss GetBucketRegionWithClient is
\* issued, with d.lock still held
CacheMiss(p) ==
    /\ spc[p] = "locked"
    /\ BucketOf(p) \notin DOMAIN serviceCache
    /\ resolveCalls' = [resolveCalls EXCEPT ![BucketOf(p)] = @ + 1]
    /\ spc' = [spc EXCEPT ![p] = "resolving"]
    /\ UNCHANGED <<lock, serviceCache, sreq, ssvc, sres, sbackend,
                   resolveFails, calls>>
    /\ UNCHANGED notS3

\* getServiceForBucket lines 58-64: the region arrives, the client for it is
\* cached and returned, and the deferred Unlock runs
ResolveOk(p, region) ==
    /\ spc[p] = "resolving"
    /\ serviceCache' = (BucketOf(p) :> region) @@ serviceCache
    /\ ssvc' = [ssvc EXCEPT ![p] = region]
    /\ lock' = 0
    /\ spc' = [spc EXCEPT ![p] = "call"]
    /\ UNCHANGED <<sreq, sres, sbackend, resolveCalls, resolveFails, calls>>
    /\ UNCHANGED notS3

\* getServiceForBucket lines 58-61 and Download 97-99 / SizeOf 124-126: the
\* resolution fails, err is returned as it is, and the deferred Unlock runs
ResolveErr(p, e) ==
    /\ spc[p] = "resolving"
    /\ sbackend' = [sbackend EXCEPT ![p] = e]
    /\ sres' = [sres EXCEPT ![p] = [val |-> NoValue, err |-> e]]
    /\ resolveFails' = [resolveFails EXCEPT ![BucketOf(p)] = @ + 1]
    /\ lock' = 0
    /\ spc' = [spc EXCEPT ![p] = "done"]
    /\ UNCHANGED <<serviceCache, sreq, ssvc, resolveCalls, calls>>
    /\ UNCHANGED notS3

\* the (value, error) Download/SizeOf return for the backend's answer
\* A slip: every failure of the object call is reported as not found.
MapObjectErr_AllNotFound(e) == IF e = NilErr THEN e ELSE ErrDoesNotExist

MapObjectErr(e) == IF s3IsNotFoundErr(e) THEN ErrDoesNotExist ELSE e

\* Download lines 101-114: GetObject succeeds (or refuses the range)
GetObjectOk(p) ==
    /\ spc[p] = "call"
    /\ sreq[p].op = "Download"
    /\ LET out == ServeRange(S3Object.size,
                             buildRange(sreq[p].offsetStart, sreq[p].offsetEnd))
           e == IF out.err = "nil" THEN NilErr ELSE AwsErr(out.err)
       IN  /\ sbackend' = [sbackend EXCEPT ![p] = e]
           /\ sres' = [sres EXCEPT ![p] =
                  IF e = NilErr THEN [val |-> BodyValue(out), err |-> NilErr]
                  ELSE [val |-> NoValue, err |-> MapObjectErr(e)]]
    /\ spc' = [spc EXCEPT ![p] = "done"]
    /\ UNCHANGED <<lock, serviceCache, sreq, ssvc, resolveCalls, resolveFails, calls>>
    /\ UNCHANGED notS3

\* SizeOf lines 127-137: HeadObject succeeds
HeadObjectOk(p) ==
    /\ spc[p] = "call"
    /\ sreq[p].op = "SizeOf"
    /\ sbackend' = [sbackend EXCEPT ![p] = NilErr]
    /\ sres' = [sres EXCEPT ![p] = [val |-> SizeValue(S3Object.size), err |-> NilErr]]
    /\ spc' = [spc EXCEPT ![p] = "done"]
    /\ UNCHANGED <<lock, serviceCache, sreq, ssvc, resolveCalls, resolveFails, calls>>
    /\ UNCHANGED notS3

\* Download lines 104-113 / SizeOf lines 127-135: GetObject/HeadObject fails
ObjectErr(p, e) ==
    /\ spc[p] = "call"
    /\ sbackend' = [sbackend EXCEPT ![p] = e]
    /\ sres' = [sres EXCEPT ![p] = [val |-> NoValue, err |-> MapObjectErr(e)]]
    /\ spc' = [spc EXCEPT ![p] = "done"]
    /\ UNCHANGED <<lock, serviceCache, sreq, ssvc, resolveCalls, resolveFails, calls>>
    /\ UNCHANGED notS3

\* the caller takes the result; it may call again
Return(p) ==
    /\ spc[p] = "done"
    /\ spc' = [spc EXCEPT ![p] = "idle"]
    /\ sreq' = [sreq EXCEPT ![p] = NoRequest]
    /\ ssvc' = [ssvc EXCEPT ![p] = NoSvc]
    /\ sres' = [sres EXCEPT ![p] = NoResult]
    /\ sbackend' = [sbackend EXCEPT ![p] = NilErr]
    /\ UNCHANGED <<lock, serviceCache, resolveCalls, resolveFails, calls>>
    /\ UNCHANGED notS3

NextS3 ==
    \/ \E p \in Callers, r \in Requests : Call(p, r)
    \/ \E p \in Callers : Lock(p)
    \/ \E p \in Callers : CacheHit(p)
    \/ \E p \in Callers : CacheMiss(p)
    \/ \E p \in Callers, region \in Regions : ResolveOk(p, region)
    \/ \E p \in Callers, e \in ResolveErrors : ResolveErr(p, e)
    \/ \E p \in Callers : GetObjectOk(p)
    \/ \E p \in Callers : HeadObjectOk(p)
    \/ \E p \in Callers, e \in ObjectErrors : ObjectErr(p, e)
    \/ \E p \in Callers : Return(p)

-----------------------------------------------------------------------------
(* davFS: the WebDAV filesystem over the Tree                                *)

MaxDavOps == 3

DavPaths == {"/", "/a", "/a/b.txt", "/x"}

\* os.FileMode permission bits: 0, 0644, 0755
DavPerms == {0, 420, 493}

\* os.O_RDONLY, O_WRONLY, O_RDWR, O_CREATE, O_CREATE|O_RDWR, O_TRUNC|O_WRONLY,
\* O_APPEND|O_WRONLY
DavFlags == {0, 1, 2, 64, 66, 513, 1025}

TheTree == "tree"

NoHandle == [tree |-> "nil", fi |-> ""]

NoDavOp == [op |-> "none", name |-> "", newName |-> "", flag |-> 0, perm |-> 0,
            err |-> "nil", handle |-> NoHandle]

\* index.Tree.Stat: the entry of a path the Tree holds, else not-found
TreeStat(t, name) ==
    IF name \in t THEN [fi |-> name, err |-> "nil"]
    ELSE [fi |-> "", err |-> "ErrNotExist"]

InitDav ==
    /\ tree \in {t \in SUBSET DavPaths : "/" \in t}
    /\ fsTree = TheTree
    /\ treeCalls = 0
    /\ davOps = 0
    /\ davLast = NoDavOp

ParkedDav ==
    /\ tree = {"/"}
    /\ fsTree = TheTree
    /\ treeCalls = 0
    /\ davOps = 0
    /\ davLast = NoDavOp

\* A read-write slip: Mkdir creates the directory when the path is free.
Mkdir_Creates(name, perm) ==
    /\ davOps < MaxDavOps
    /\ davOps' = davOps + 1
    /\ treeCalls' = treeCalls + 1
    /\ IF name \in tree
       THEN /\ tree' = tree
            /\ davLast' = [NoDavOp EXCEPT !.op = "Mkdir", !.name = name,
                                          !.perm = perm, !.err = "ErrExist"]
       ELSE /\ tree' = tree \cup {name}
            /\ davLast' = [NoDavOp EXCEPT !.op = "Mkdir", !.name = name,
                                          !.perm = perm, !.err = "nil"]
    /\ UNCHANGED fsTree
    /\ UNCHANGED notDav

Mkdir(name, perm) ==
    /\ davOps < MaxDavOps
    /\ davOps' = davOps + 1
    /\ davLast' = [NoDavOp EXCEPT !.op = "Mkdir", !.name = name, !.perm = perm,
                                  !.err = "ErrInvalid"]
    /\ UNCHANGED <<tree, fsTree, treeCalls>>
    /\ UNCHANGED notDav

OpenFile(name, flag, perm) ==
    /\ davOps < MaxDavOps
    /\ davOps' = davOps + 1
    /\ treeCalls' = treeCalls + 1
    /\ LET st == TreeStat(tree, name) IN
       davLast' = [NoDavOp EXCEPT
                      !.op = "OpenFile", !.name = name, !.flag = flag, !.perm = perm,
                      !.err = st.err,
                      !.handle = IF st.err # "nil" THEN NoHandle
                                 ELSE [tree |-> fsTree, fi |-> st.fi]]
    /\ UNCHANGED <<tree, fsTree>>
    /\ UNCHANGED notDav

RemoveAll(name) ==
    /\ davOps < MaxDavOps
    /\ davOps' = davOps + 1
    /\ davLast' = [NoDavOp EXCEPT !.op = "RemoveAll", !.name = name,
                                  !.err = "ErrInvalid"]
    /\ UNCHANGED <<tree, fsTree, treeCalls>>
    /\ UNCHANGED notDav

Rename(oldName, newName) ==
    /\ davOps < MaxDavOps
    /\ davOps' = davOps + 1
    /\ davLast' = [NoDavOp EXCEPT !.op = "Rename", !.name = oldName,
                                  !.newName = newName, !.err = "ErrInvalid"]
    /\ UNCHANGED <<tree, fsTree, treeCalls>>
    /\ UNCHANGED notDav

Stat(name) ==
    /\ davOps < MaxDavOps
    /\ davOps' = davOps + 1
    /\ treeCalls' = treeCalls + 1
    /\ LET st == TreeStat(tree, name) IN
       davLast' = [NoDavOp EXCEPT !.op = "Stat", !.name = name, !.err = st.err,
                      !.handle = IF st.err # "nil" THEN NoHandle
                                 ELSE [tree |-> "nil", fi |-> st.fi]]
    /\ UNCHANGED <<tree, fsTree>>
    /\ UNCHANGED notDav

NextDav ==
    \/ \E name \in DavPaths, perm \in DavPerms : Mkdir(name, perm)
    \/ \E name \in DavPaths, flag \in DavFlags, perm \in DavPerms :
          OpenFile(name, flag, perm)
    \/ \E name \in DavPaths : RemoveAll(name)
    \/ \E oldName \in DavPaths, newName \in DavPaths : Rename(oldName, newName)
    \/ \E name \in DavPaths : Stat(name)

-----------------------------------------------------------------------------
(* mount-server: Run, the adapter goroutine and the interrupt signal         *)

Threads == {"main", "adapter"}

Configs ==
    [cacheDirFlag : {"", "/cache"},
     cacheDirEnv  : {"", "/env"},
     callbackAddr : {"", "127.0.0.1:9000"},
     logFile      : {"", "/log"},
     protocol     : {"nfs", "webdav", "ftp"}]

\* what one sendCallback call can come to: the line written and the
\* connection closed; net.Dial failing (nothing written); the line written
\* and Close failing
SendOutcomes == {"ok", "dialErr", "closeErr"}

AutoCacheDir == "/tmp/cz-mount-cache/uuid"

InitMount ==
    /\ cfg \in Configs
    /\ pc = [main |-> "logging", adapter |-> "none"]
    /\ cacheDir = cfg.cacheDirFlag
    /\ autoCache = FALSE
    /\ defers = <<>>
    /\ listener = "none"
    /\ buildResult = "none"
    /\ sigRegistered = FALSE
    /\ ctxDone = FALSE
    /\ adapter = "none"
    /\ err = "nil"
    /\ serveResult = "none"
    /\ callbacks = <<>>
    /\ dieMsg = [main |-> "", adapter |-> ""]
    /\ cacheRemoved = FALSE
    /\ exit = "running"

ParkedMount ==
    /\ cfg = [cacheDirFlag |-> "", cacheDirEnv |-> "", callbackAddr |-> "",
              logFile |-> "", protocol |-> "nfs"]
    /\ pc = [main |-> "parked", adapter |-> "none"]
    /\ cacheDir = ""
    /\ autoCache = FALSE
    /\ defers = <<>>
    /\ listener = "none"
    /\ buildResult = "none"
    /\ sigRegistered = FALSE
    /\ ctxDone = FALSE
    /\ adapter = "none"
    /\ err = "nil"
    /\ serveResult = "none"
    /\ callbacks = <<>>
    /\ dieMsg = [main |-> "", adapter |-> ""]
    /\ cacheRemoved = FALSE
    /\ exit = "running"

\* thread t is at position at, in a process that is still alive
At(t, at) == exit = "running" /\ pc[t] = at

\* thread t goes on to position to
Goto(t, to) == pc' = [pc EXCEPT ![t] = to]

\* thread t enters dieWithCallback(callbackAddr, ...) for the given reason
EnterDieWithCallback(t, why) ==
    /\ pc' = [pc EXCEPT ![t] = "dwc"]
    /\ dieMsg' = [dieMsg EXCEPT ![t] = why]

\* sendCallback (lines 36-46), called by thread t with the given status
sendCallback(t, status, outcome) ==
    callbacks' = Append(callbacks, [status |-> status, from |-> t, result |-> outcome])

\* lines 96-102: serverLogging; with no log file it writes to stdout
ServerLogging(ok) ==
    /\ At("main", "logging")
    /\ cfg.logFile = "" => ok
    /\ IF ok
       THEN /\ Goto("main", "cachedir")
            /\ UNCHANGED <<err, dieMsg>>
       ELSE /\ err' = "logErr"
            /\ EnterDieWithCallback("main", "log")
    /\ UNCHANGED <<cfg, serveResult, cacheDir, autoCache, defers, listener,
                   buildResult, sigRegistered, ctxDone, adapter, callbacks,
                   cacheRemoved, exit>>
    /\ UNCHANGED notMount

\* lines 113-126: the cache directory is the flag's, else the environment's,
\* else a generated one whose removal is deferred
HandleCacheDir ==
    /\ At("main", "cachedir")
    /\ LET fromEnv == IF cacheDir = "" THEN cfg.cacheDirEnv ELSE cacheDir IN
       IF fromEnv = ""
       THEN /\ cacheDir' = AutoCacheDir
            /\ autoCache' = TRUE
            /\ defers' = Append(defers, "rmCache")
       ELSE /\ cacheDir' = fromEnv
            /\ UNCHANGED <<autoCache, defers>>
    /\ Goto("main", "isdir")
    /\ UNCHANGED <<cfg, serveResult, listener, buildResult, sigRegistered,
                   ctxDone, adapter, err, callbacks, dieMsg, cacheRemoved,
                   exit>>
    /\ UNCHANGED notMount

\* lines 127-132: isDir(cacheDir)
IsDir(ok, dirExists) ==
    /\ At("main", "isdir")
    /\ IF ~ok
       THEN /\ err' = "isDirErr"
            /\ EnterDieWithCallback("main", "isdir")
       ELSE /\ err' = "nil"
            /\ Goto("main", IF dirExists THEN "listen" ELSE "mkdir")
            /\ UNCHANGED dieMsg
    /\ UNCHANGED <<cfg, serveResult, cacheDir, autoCache, defers, listener,
                   buildResult, sigRegistered, ctxDone, adapter, callbacks,
                   cacheRemoved, exit>>
    /\ UNCHANGED notMount

\* lines 132-137: os.MkdirAll(cacheDir, 0755); its err is local to the block
MkdirAll(ok) ==
    /\ At("main", "mkdir")
    /\ IF ok
       THEN /\ Goto("main", "listen")
            /\ UNCHANGED dieMsg
       ELSE EnterDieWithCallback("main", "mkdir")
    /\ UNCHANGED <<cfg, serveResult, cacheDir, autoCache, defers, listener,
                   buildResult, sigRegistered, ctxDone, adapter, err, callbacks,
                   cacheRemoved, exit>>
    /\ UNCHANGED notMount

\* lines 139-144: net.Listen("tcp4", listenAddr)
\* A slip: Run goes on to the build without the socket being bound.
Listen_Unbound(ok) ==
    /\ At("main", "listen")
    /\ IF ok
       THEN /\ err' = "nil"
            /\ Goto("main", "build")
            /\ UNCHANGED dieMsg
       ELSE /\ err' = "listenErr"
            /\ EnterDieWithCallback("main", "listen")
    /\ UNCHANGED <<cfg, serveResult, cacheDir, autoCache, defers, listener,
                   buildResult, sigRegistered, ctxDone, adapter, callbacks,
                   cacheRemoved, exit>>
    /\ UNCHANGED notMount

Listen(ok) ==
    /\ At("main", "listen")
    /\ IF ok
       THEN /\ listener' = "bound"
            /\ err' = "nil"
            /\ Goto("main", "build")
            /\ UNCHANGED dieMsg
       ELSE /\ err' = "listenErr"
            /\ EnterDieWithCallback("main", "listen")
            /\ UNCHANGED listener
    /\ UNCHANGED <<cfg, serveResult, cacheDir, autoCache, defers, buildResult,
                   sigRegistered, ctxDone, adapter, callbacks, cacheRemoved,
                   exit>>
    /\ UNCHANGED notMount

\* line 147: mount.BuildZipTree is called, under cmd.Context()
BuildStart ==
    /\ At("main", "build")
    /\ buildResult' = "running"
    /\ Goto("main", "building")
    /\ UNCHANGED <<cfg, serveResult, cacheDir, autoCache, defers, listener,
                   sigRegistered, ctxDone, adapter, err, callbacks, dieMsg,
                   cacheRemoved, exit>>
    /\ UNCHANGED notMount

\* lines 147-155: BuildZipTree returns the tree
BuildOk ==
    /\ At("main", "building")
    /\ buildResult' = "ok"
    /\ err' = "nil"
    /\ Goto("main", "signal")
    /\ UNCHANGED <<cfg, serveResult, cacheDir, autoCache, defers, listener,
                   sigRegistered, ctxDone, adapter, callbacks, dieMsg,
                   cacheRemoved, exit>>
    /\ UNCHANGED notMount

\* A slip: the build error is recorded but Run carries on.
BuildErr_Continues ==
    /\ At("main", "building")
    /\ buildResult' = "failed"
    /\ err' = "buildErr"
    /\ Goto("main", "signal")
    /\ UNCHANGED <<cfg, serveResult, cacheDir, autoCache, defers, listener,
                   sigRegistered, ctxDone, adapter, callbacks, dieMsg,
                   cacheRemoved, exit>>
    /\ UNCHANGED notMount

\* lines 147-155: BuildZipTree returns an error
BuildErr ==
    /\ At("main", "building")
    /\ buildResult' = "failed"
    /\ err' = "buildErr"
    /\ EnterDieWithCallback("main", "build")
    /\ UNCHANGED <<cfg, serveResult, cacheDir, autoCache, defers, listener,
                   sigRegistered, ctxDone, adapter, callbacks, cacheRemoved,
                   exit>>
    /\ UNCHANGED notMount

\* lines 157-159: signal.NotifyContext(ctx, os.Interrupt); defer cancelFn()
SetupSignal ==
    /\ At("main", "signal")
    /\ sigRegistered' = TRUE
    /\ defers' = Append(defers, "cancelFn")
    /\ Goto("main", "proto")
    /\ UNCHANGED <<cfg, serveResult, cacheDir, autoCache, listener, buildResult,
                   ctxDone, adapter, err, callbacks, dieMsg, cacheRemoved,
                   exit>>
    /\ UNCHANGED notMount

\* lines 161-182: the goroutine serving the selected protocol is started
\* A slip: the webdav branch launches nothing, and Run goes on to report
\* success.
StartAdapter_NfsOnly ==
    /\ At("main", "proto")
    /\ cfg.protocol \in {"nfs", "webdav"}
    /\ IF cfg.protocol = "nfs"
       THEN /\ adapter' = cfg.protocol
            /\ pc' = [pc EXCEPT !["main"] = "callback", !["adapter"] = "serving"]
       ELSE /\ Goto("main", "callback")
            /\ UNCHANGED adapter
    /\ UNCHANGED <<cfg, serveResult, cacheDir, autoCache, defers, listener,
                   buildResult, sigRegistered, ctxDone, err, callbacks, dieMsg,
                   cacheRemoved, exit>>
    /\ UNCHANGED notMount

StartAdapter ==
    /\ At("main", "proto")
    /\ cfg.protocol \in {"nfs", "webdav"}
    /\ adapter' = cfg.protocol
    /\ pc' = [pc EXCEPT !["main"] = "callback", !["adapter"] = "serving"]
    /\ UNCHANGED <<cfg, serveResult, cacheDir, autoCache, defers, listener,
                   buildResult, sigRegistered, ctxDone, err, callbacks, dieMsg,
                   cacheRemoved, exit>>
    /\ UNCHANGED notMount

\* A slip: the final else is missing, so an unknown protocol is not refused.
UnknownProtocol_FallsThrough ==
    /\ At("main", "proto")
    /\ cfg.protocol \notin {"nfs", "webdav"}
    /\ Goto("main", "callback")
    /\ UNCHANGED <<cfg, serveResult, cacheDir, autoCache, defers, listener,
                   buildResult, sigRegistered, ctxDone, adapter, err, callbacks,
                   dieMsg, cacheRemoved, exit>>
    /\ UNCHANGED notMount

\* lines 183-186: any other protocol value
UnknownProtocol ==
    /\ At("main", "proto")
    /\ cfg.protocol \notin {"nfs", "webdav"}
    /\ EnterDieWithCallback("main", "proto")
    /\ UNCHANGED <<cfg, serveResult, cacheDir, autoCache, defers, listener,
                   buildResult, sigRegistered, ctxDone, adapter, err, callbacks,
                   cacheRemoved, exit>>
    /\ UNCHANGED notMount

\* lines 188-189: err = sendCallback(callbackAddr, success, boundAddr)
SendSuccess(outcome) ==
    /\ At("main", "callback")
    /\ IF cfg.callbackAddr = ""
       THEN /\ Goto("main", "wait")
            /\ UNCHANGED <<err, callbacks>>
       ELSE /\ sendCallback("main", "success", outcome)
            /\ err' = IF outcome = "ok" THEN "nil" ELSE "sendErr"
            /\ Goto("main", "checksend")
    /\ cfg.callbackAddr = "" => outcome = "ok"
    /\ UNCHANGED <<cfg, serveResult, cacheDir, autoCache, defers, listener,
                   buildResult, sigRegistered, ctxDone, adapter, dieMsg,
                   cacheRemoved, exit>>
    /\ UNCHANGED notMount

\* lines 190-192: if err != nil { die(...) }
CheckSend ==
    /\ At("main", "checksend")
    /\ IF err # "nil"
       THEN /\ pc' = [pc EXCEPT !["main"] = "die"]
            /\ dieMsg' = [dieMsg EXCEPT !["main"] = "sendback"]
       ELSE /\ Goto("main", "wait")
            /\ UNCHANGED dieMsg
    /\ UNCHANGED <<cfg, serveResult, cacheDir, autoCache, defers, listener,
                   buildResult, sigRegistered, ctxDone, adapter, err, callbacks,
                   cacheRemoved, exit>>
    /\ UNCHANGED notMount

\* line 198: <-ctx.Done() returns, and Run starts to return
\* A slip: Run also waits for the adapter goroutine to end before returning.
WaitDone_JoinsAdapter ==
    /\ At("main", "wait")
    /\ ctxDone
    /\ pc["adapter"] = "ended"
    /\ Goto("main", "deferred")
    /\ UNCHANGED <<cfg, serveResult, cacheDir, autoCache, defers, listener,
                   buildResult, sigRegistered, ctxDone, adapter, err, callbacks,
                   dieMsg, cacheRemoved, exit>>
    /\ UNCHANGED notMount

WaitDone ==
    /\ At("main", "wait")
    /\ ctxDone
    /\ Goto("main", "deferred")
    /\ UNCHANGED <<cfg, serveResult, cacheDir, autoCache, defers, listener,
                   buildResult, sigRegistered, ctxDone, adapter, err, callbacks,
                   dieMsg, cacheRemoved, exit>>
    /\ UNCHANGED notMount

\* line 159, run as Run returns: cancelFn() cancels the context and
\* uninstalls the signal handler
DeferredCancel ==
    /\ At("main", "deferred")
    /\ Len(defers) > 0 /\ defers[Len(defers)] = "cancelFn"
    /\ defers' = SubSeq(defers, 1, Len(defers) - 1)
    /\ ctxDone' = TRUE
    /\ sigRegistered' = FALSE
    /\ UNCHANGED <<cfg, serveResult, pc, cacheDir, autoCache, listener,
                   buildResult, adapter, err, callbacks, dieMsg, cacheRemoved,
                   exit>>
    /\ UNCHANGED notMount

\* lines 120-125, run as Run returns: os.RemoveAll(cacheDir)
DeferredRemoveCache(ok) ==
    /\ At("main", "deferred")
    /\ Len(defers) > 0 /\ defers[Len(defers)] = "rmCache"
    /\ defers' = SubSeq(defers, 1, Len(defers) - 1)
    /\ cacheRemoved' = TRUE
    /\ IF ok
       THEN UNCHANGED <<pc, dieMsg>>
       ELSE EnterDieWithCallback("main", "rmcache")
    /\ UNCHANGED <<cfg, serveResult, cacheDir, autoCache, listener, buildResult,
                   sigRegistered, ctxDone, adapter, err, callbacks, exit>>
    /\ UNCHANGED notMount

\* Run has returned: the command ends and the process exits with status 0
RunReturns ==
    /\ At("main", "deferred")
    /\ defers = <<>>
    /\ exit' = "exit0"
    /\ UNCHANGED <<cfg, serveResult, pc, cacheDir, autoCache, defers, listener,
                   buildResult, sigRegistered, ctxDone, adapter, err, callbacks,
                   dieMsg, cacheRemoved>>
    /\ UNCHANGED notMount

\* lines 167 / 176: err = nfs.Serve(...) / dav.Serve(...) returns in the goroutine
ServeReturns(e) ==
    /\ At("adapter", "serving")
    /\ err' = e
    /\ serveResult' = e
    /\ Goto("adapter", "checkserve")
    /\ UNCHANGED <<cfg, cacheDir, autoCache, defers, listener, buildResult,
                   sigRegistered, ctxDone, adapter, callbacks, dieMsg,
                   cacheRemoved, exit>>
    /\ UNCHANGED notMount

\* lines 168-172 / 177-181: if err != nil { dieWithCallback(...) }
CheckServe ==
    /\ At("adapter", "checkserve")
    /\ IF err # "nil"
       THEN EnterDieWithCallback("adapter", "serve")
       ELSE /\ Goto("adapter", "ended")
            /\ UNCHANGED dieMsg
    /\ UNCHANGED <<cfg, serveResult, cacheDir, autoCache, defers, listener,
                   buildResult, sigRegistered, ctxDone, adapter, err, callbacks,
                   cacheRemoved, exit>>
    /\ UNCHANGED notMount

\* dieWithCallback lines 25-32: the error callback, when an address is set
DieNotify(t, outcome) ==
    /\ At(t, "dwc")
    /\ IF cfg.callbackAddr # ""
       THEN sendCallback(t, "error", outcome)
       ELSE /\ outcome = "ok"
            /\ UNCHANGED callbacks
    /\ Goto(t, "die")
    /\ UNCHANGED <<cfg, serveResult, cacheDir, autoCache, defers, listener,
                   buildResult, sigRegistered, ctxDone, adapter, err, dieMsg,
                   cacheRemoved, exit>>
    /\ UNCHANGED notMount

\* die: the message is printed and the process exits with a non-zero status
\* at once; Run's deferred calls are not run
die(t) ==
    /\ At(t, "die")
    /\ exit' = "die"
    /\ UNCHANGED <<cfg, serveResult, pc, cacheDir, autoCache, defers, listener,
                   buildResult, sigRegistered, ctxDone, adapter, err, callbacks,
                   dieMsg, cacheRemoved>>
    /\ UNCHANGED notMount

\* SIGINT arrives: it cancels the NotifyContext context while the handler of
\* line 158 is installed; otherwise Go's default disposition ends the process
Interrupt ==
    /\ exit = "running"
    /\ IF sigRegistered
       THEN /\ ~ctxDone
            /\ ctxDone' = TRUE
            /\ UNCHANGED exit
       ELSE /\ exit' = "killed"
            /\ UNCHANGED ctxDone
    /\ UNCHANGED <<cfg, serveResult, pc, cacheDir, autoCache, defers, listener,
                   buildResult, sigRegistered, adapter, err, callbacks, dieMsg,
                   cacheRemoved>>
    /\ UNCHANGED notMount

NextMount ==
    \/ \E ok \in BOOLEAN : ServerLogging(ok)
    \/ HandleCacheDir
    \/ \E ok \in BOOLEAN, dirExists \in BOOLEAN : IsDir(ok, dirExists)
    \/ \E ok \in BOOLEAN : MkdirAll(ok)
    \/ \E ok \in BOOLEAN : Listen(ok)
    \/ BuildStart
    \/ BuildOk
    \/ BuildErr
    \/ SetupSignal
    \/ StartAdapter
    \/ UnknownProtocol
    \/ \E outcome \in SendOutcomes : SendSuccess(outcome)
    \/ CheckSend
    \/ WaitDone
    \/ DeferredCancel
    \/ \E ok \in BOOLEAN : DeferredRemoveCache(ok)
    \/ RunReturns
    \/ \E e \in {"nil", "serveErr"} : ServeReturns(e)
    \/ CheckServe
    \/ \E t \in Threads, outcome \in SendOutcomes : DieNotify(t, outcome)
    \/ \E t \in Threads : die(t)
    \/ Interrupt

-----------------------------------------------------------------------------
(* SpecRange *)

MaxOffset == 11

RangeOffsets == (0..MaxOffset) \cup {100, 499, 500}

RangeSizes == {1, MaxOffset - 4, 500}

NoBody == [err |-> "none", lo |-> 0, hi |-> -1]

ParkedRange ==
    /\ rpc = "parked"
    /\ offsetStart = 0
    /\ offsetEnd = 0
    /\ objSize = 0
    /\ rng = NilString
    /\ body = NoBody

InitRange ==
    /\ ParkedS3
    /\ ParkedDav
    /\ ParkedMount
    /\ rpc = "start"
    /\ offsetStart \in RangeOffsets
    /\ offsetEnd \in RangeOffsets
    /\ objSize \in RangeSizes
    /\ rng = NilString
    /\ body = NoBody

\* Download, line 101: rng := buildRange(offsetStart, offsetEnd)
DownloadBuildRange ==
    /\ rpc = "start"
    /\ rng' = buildRange(offsetStart, offsetEnd)
    /\ rpc' = "ranged"
    /\ UNCHANGED <<offsetStart, offsetEnd, objSize, body>>
    /\ UNCHANGED notRange

\* Download, lines 104-114: GetObject with Range: rng, out.Body returned
DownloadGetObject ==
    /\ rpc = "ranged"
    /\ body' = ServeRange(objSize, rng)
    /\ rpc' = "done"
    /\ UNCHANGED <<offsetStart, offsetEnd, objSize, rng>>
    /\ UNCHANGED notRange

NextRange ==
    \/ DownloadBuildRange
    \/ DownloadGetObject

SpecRange == InitRange /\ [][NextRange]_vars

StartS3 == InitS3 /\ ParkedRange /\ ParkedDav /\ ParkedMount

StartDav == InitDav /\ ParkedRange /\ ParkedS3 /\ ParkedMount

StartMount == InitMount /\ ParkedRange /\ ParkedS3 /\ ParkedDav

SpecMount == StartMount /\ [][NextMount]_vars

\* the steps of the main goroutine from <-ctx.Done() to the end of the
\* process: once runnable, the Go scheduler runs them
ShutdownSteps ==
    \/ WaitDone
    \/ DeferredCancel
    \/ \E ok \in BOOLEAN : DeferredRemoveCache(ok)
    \/ RunReturns
    \/ \E outcome \in SendOutcomes : DieNotify("main", outcome)
    \/ die("main")

\* the mount server with its main goroutine scheduled fairly through
\* shutdown; signals and the return of Serve stay up to the environment
FairSpecMount ==
    StartMount /\ [][NextMount]_vars /\ WF_vars(ShutdownSteps)

SpecDav == StartDav /\ [][NextDav]_vars

SpecS3 == StartS3 /\ [][NextS3]_vars

-----------------------------------------------------------------------------
(* Claims settled under SpecRange *)

\* Which of the documented forms a range expression has, read back by parsing.
RangeForm(r) ==
    IF r.isNil THEN "none"
    ELSE LET p == ParseRange(r.s) IN
         IF ~p.ok THEN "malformed"
         ELSE IF Len(p.first) = 0 THEN "suffix"
         ELSE IF Len(p.last) = 0 THEN "from"
         ELSE "both"

\* ds is the decimal numeral of n, without leading zeros
IsNumeralOf(ds, n) == Len(ds) > 0 /\ ds[1] # "0" /\ ParseNat(ds) = n

\* C1: for every pair of non-negative offsets buildRange yields exactly the
\* documented form for that pair: no range expression for (0, 0),
\* "bytes=start-" for start # 0 and end = 0, "bytes=start-end" when both are
\* non-zero, "bytes=-end" for start = 0 and end # 0; and a Download with only
\* a start offset inside the object returns the bytes from that offset to the
\* end of the object (start = 100 on 500 bytes: bytes 100..499, 400 bytes).
C1_RangeForms ==
    rpc \in {"ranged", "done"} =>
        /\ (offsetStart = 0 /\ offsetEnd = 0) => RangeForm(rng) = "none"
        /\ (offsetStart # 0 /\ offsetEnd = 0) =>
              /\ RangeForm(rng) = "from"
              /\ IsNumeralOf(ParseRange(rng.s).first, offsetStart)
        /\ (offsetStart # 0 /\ offsetEnd # 0) =>
              /\ RangeForm(rng) = "both"
              /\ IsNumeralOf(ParseRange(rng.s).first, offsetStart)
              /\ IsNumeralOf(ParseRange(rng.s).last, offsetEnd)
        /\ (offsetStart = 0 /\ offsetEnd # 0) =>
              /\ RangeForm(rng) = "suffix"
              /\ IsNumeralOf(ParseRange(rng.s).last, offsetEnd)
        /\ (rpc = "done" /\ offsetStart # 0 /\ offsetEnd = 0 /\ offsetStart < objSize) =>
              /\ body = [err |-> "nil", lo |-> offsetStart, hi |-> objSize - 1]
              /\ BodyLen(body) = objSize - offsetStart
        /\ (rpc = "done" /\ offsetStart = 100 /\ offsetEnd = 0 /\ objSize = 500) =>
              /\ body.lo = 100 /\ body.hi = 499 /\ BodyLen(body) = 400

C1_Witness ==
    /\ rpc = "done"
    /\ offsetStart = 100 /\ offsetEnd = 0 /\ objSize = 500
    /\ rng = StringPtr(<<"b", "y", "t", "e", "s", "=", "1", "0", "0", "-">>)
    /\ BodyLen(body) = 400

\* a Download with both bounds set, start < end, on an object longer than end
BothBoundsInside ==
    /\ rpc = "done"
    /\ offsetStart # 0 /\ offsetEnd # 0
    /\ offsetStart < offsetEnd
    /\ offsetEnd < objSize

\* C11 as stated: with both bounds non-zero and start < end, against an object
\* longer than end bytes, Download returns the half-open interval [start, end):
\* end - start bytes, the last of them at offset end - 1.
C11_HalfOpenInterval ==
    BothBoundsInside =>
        /\ body.err = "nil"
        /\ body.lo = offsetStart
        /\ body.hi = offsetEnd - 1
        /\ BodyLen(body) = offsetEnd - offsetStart

\* C11 as amended: it returns the closed interval [start, end]:
\* end - start + 1 bytes, the byte at offset end included.
C11_ClosedInterval ==
    BothBoundsInside =>
        /\ body.err = "nil"
        /\ body.lo = offsetStart
        /\ body.hi = offsetEnd
        /\ BodyLen(body) = offsetEnd - offsetStart + 1

C11_Witness ==
    /\ BothBoundsInside
    /\ offsetStart = 2 /\ offsetEnd = 5
    /\ rng = StringPtr(<<"b", "y", "t", "e", "s", "=", "2", "-", "5">>)
    /\ body = [err |-> "nil", lo |-> 2, hi |-> 5]

-----------------------------------------------------------------------------
(* Claims settled under SpecS3 *)

\* C2: whenever the backend answered a Download or SizeOf call with
\* no-such-container or no-such-object, at route resolution or at
\* GetObject/HeadObject, the call returns the ErrDoesNotExist sentinel and not
\* the backend's own error.
C2_NotFoundSentinel ==
    \A p \in Callers :
        (spc[p] = "done" /\ s3IsNotFoundErr(sbackend[p])) =>
            sres[p].err = ErrDoesNotExist

\* callers whose GetBucketRegionWithClient call for bucket b is outstanding
Resolving(b) == {p \in Callers : spc[p] = "resolving" /\ BucketOf(p) = b}

\* C3 as stated: the resolution call for a container is issued at most once,
\* whether it succeeds or fails.
C3_ResolvedAtMostOnce == \A b \in Buckets : resolveCalls[b] <= 1

\* C3 as amended: resolution calls for a container never overlap, none is
\* issued once the container's route is cached, and every call but the last
\* one failed (a failed resolution caches nothing, so the next request
\* resolves again).
C3_ResolvedOnceUnlessFailed ==
    \A b \in Buckets :
        /\ Cardinality(Resolving(b)) <= 1
        /\ b \in DOMAIN serviceCache => Resolving(b) = {}
        /\ resolveCalls[b] <= resolveFails[b] + 1
        /\ resolveCalls[b] =
              resolveFails[b] + Cardinality(Resolving(b))
              + (IF b \in DOMAIN serviceCache THEN 1 ELSE 0)

\* two first-time requests for one container raced, and both hold a client
\* after a single resolution call
C3_Witness ==
    \E p, q \in Callers :
        /\ p # q
        /\ spc[p] = "call" /\ spc[q] = "call"
        /\ BucketOf(p) = BucketOf(q)
        /\ ssvc[p] = ssvc[q]
        /\ resolveCalls[BucketOf(p)] = 1
        /\ calls = 2

\* C4: while the resolution call for one container is outstanding, a request
\* for another container that is waiting for the route-cache mutex can take
\* it (the mutex is not held across the network call).
C4_NoBlockingAcrossContainers ==
    \A p, q \in Callers :
        (/\ spc[p] = "resolving"
         /\ spc[q] = "lock"
         /\ BucketOf(p) # BucketOf(q)) => LockAvailable(q)

\* C13: the route cache is write-once per container: in every step, a
\* container that has a route in serviceCache keeps that same route and is
\* not resolved again; and every request that goes on to its GetObject or
\* HeadObject call holds the route cached for its container.
C13_RouteCacheWriteOnce ==
    /\ [][\A b \in DOMAIN serviceCache :
              /\ b \in DOMAIN serviceCache'
              /\ serviceCache'[b] = serviceCache[b]
              /\ resolveCalls'[b] = resolveCalls[b]]_vars
    /\ [](\A p \in Callers :
              spc[p] = "call" =>
                  /\ BucketOf(p) \in DOMAIN serviceCache
                  /\ ssvc[p] = serviceCache[BucketOf(p)])

\* one request for a container has completed, and a later request for the
\* same container holds the same route after the one resolution call
C13_Witness ==
    \E p, q \in Callers :
        /\ p # q
        /\ spc[q] = "done" /\ sres[q].err = NilErr
        /\ spc[p] = "call"
        /\ BucketOf(p) = BucketOf(q)
        /\ ssvc[p] = serviceCache[BucketOf(p)]
        /\ ssvc[q] = ssvc[p]
        /\ resolveCalls[BucketOf(p)] = 1
        /\ calls = 2

\* the backend's answer is a no-such-container or no-such-object error
NoSuchThing(e) == e \in {AwsErr("NoSuchBucket"), AwsErr("NoSuchKey")}

\* C18: a backend error other than no-such-container / no-such-object, from
\* route resolution, GetObject or HeadObject, is returned to the caller of
\* Download/SizeOf unchanged, with no value; and a failed route resolution
\* leaves the route cache as it was.
C18_OtherErrorsUnchanged ==
    /\ [](\A p \in Callers :
              (spc[p] = "done" /\ sbackend[p] # NilErr /\ ~NoSuchThing(sbackend[p])) =>
                  sres[p] = [val |-> NoValue, err |-> sbackend[p]])
    /\ [][resolveFails' # resolveFails => serviceCache' = serviceCache]_vars

\* one caller got AccessDenied from the object call and another a cancelled
\* resolution, each as the backend gave it
C18_Witness ==
    \E p, q \in Callers :
        /\ spc[p] = "done" /\ spc[q] = "done"
        /\ sbackend[p] = AwsErr("AccessDenied")
        /\ sres[p].err = AwsErr("AccessDenied")
        /\ sbackend[q] = PlainErr("context canceled")
        /\ sres[q].err = PlainErr("context canceled")
        /\ resolveFails[BucketOf(q)] = 1
        /\ BucketOf(q) \notin DOMAIN serviceCache

-----------------------------------------------------------------------------
(* Claims settled under SpecDav *)

DavMutators == {"Mkdir", "RemoveAll", "Rename"}

\* C5: every Mkdir, RemoveAll and Rename, whatever its arguments and whether
\* or not the path is in the Tree, returns an error, leaves the Tree and the
\* adapter's tree field as they were, and makes no call into the Tree.
C5_MutatorsFailWithoutEffect ==
    [][(davOps' = davOps + 1 /\ davLast'.op \in DavMutators) =>
          /\ davLast'.err # "nil"
          /\ tree' = tree
          /\ fsTree' = fsTree
          /\ treeCalls' = treeCalls]_vars

\* each of the three has been refused on a path the Tree holds, after an
\* operation that did call into the Tree
C5_Witness ==
    /\ davLast.op \in DavMutators
    /\ davLast.name \in tree /\ davLast.name # "/"
    /\ davLast.perm = 493
    /\ davLast.err # "nil"
    /\ treeCalls > 0
    /\ davOps = MaxDavOps

\* C6: the error Mkdir, RemoveAll and Rename return is the permission-denied
\* ("operation not permitted") condition, for every input.
C6_NotPermitted ==
    davLast.op \in DavMutators => davLast.err = "ErrPermission"

\* the flag asks for write or create access: O_WRONLY or O_RDWR in the access
\* mode bits, or one of O_CREATE (0100), O_TRUNC (01000), O_APPEND (02000)
WriteOrCreate(flag) ==
    \/ flag % 4 \in {1, 2}
    \/ (flag \div 64) % 2 = 1
    \/ (flag \div 512) % 2 = 1
    \/ (flag \div 1024) % 2 = 1

\* C19: OpenFile delegates to the Tree only for read access: a call whose
\* flags ask for write or create access fails and returns no handle, for
\* every path; a path absent from the Tree yields the Tree's NotFound for
\* any flags; and OpenFile leaves the Tree unchanged.
C19_OpenFileReadOnly ==
    /\ []((davLast.op = "OpenFile" /\ WriteOrCreate(davLast.flag)) =>
              (davLast.err # "nil" /\ davLast.handle = NoHandle))
    /\ []((davLast.op = "OpenFile" /\ davLast.name \notin tree) =>
              (davLast.err = "ErrNotExist" /\ davLast.handle = NoHandle))
    /\ [][tree' = tree]_vars

-----------------------------------------------------------------------------
(* Claims settled under SpecMount *)

\* the callback lines that reached the callback address (a sendCallback call
\* whose Dial failed wrote nothing)
Sent == SelectSeq(callbacks, LAMBDA c : c.result # "dialErr")

Stopped == exit \in {"die", "exit0"}

\* C7: with a callback address configured, exactly one callback message is
\* sent in the lifetime of the process: never two, never an error message
\* after the success message, and, once the process has stopped with every
\* connection to the callback address having worked, not zero.
C7_ExactlyOneCallback ==
    cfg.callbackAddr # "" =>
        /\ Len(Sent) <= 1
        /\ \A i, j \in 1..Len(Sent) :
              i < j => ~(Sent[i].status = "success" /\ Sent[j].status = "error")
        /\ (Stopped /\ Len(Sent) = Len(callbacks)) => Len(Sent) = 1

\* C8: once BuildZipTree has failed, Run is in dieWithCallback or die for that
\* failure and nowhere else: no adapter is started, no success callback is
\* made, Run never returns normally, and by the time die is reached
\* sendCallback has been called exactly once, with the error status, when a
\* callback address is configured (and never when none is).
C8_BuildFailureStops ==
    buildResult = "failed" =>
        /\ pc["main"] \in {"dwc", "die"}
        /\ dieMsg["main"] = "build"
        /\ adapter = "none" /\ pc["adapter"] = "none"
        /\ exit # "exit0"
        /\ \A i \in 1..Len(callbacks) : callbacks[i].status = "error"
        /\ Len(callbacks) <= 1
        /\ cfg.callbackAddr = "" => callbacks = <<>>
        /\ (cfg.callbackAddr # "" /\ pc["main"] = "die") =>
              /\ Len(callbacks) = 1
              /\ callbacks[1].from = "main"
              /\ Len(Sent) = (IF callbacks[1].result = "dialErr" THEN 0 ELSE 1)

C8_Witness ==
    /\ buildResult = "failed"
    /\ exit = "die"
    /\ listener = "bound"
    /\ cfg.callbackAddr # ""
    /\ callbacks = <<[status |-> "error", from |-> "main", result |-> "ok"]>>

\* C9: with a protocol other than "nfs" and "webdav" startup fails: no adapter
\* is started, no success callback is made, Run never gets past the protocol
\* selection, and when the process has exited through die with a callback
\* address configured, exactly one callback has been made, with the error
\* status (its line delivered unless the connection to the address failed).
C9_UnknownProtocolFails ==
    cfg.protocol \notin {"nfs", "webdav"} =>
        /\ adapter = "none" /\ pc["adapter"] = "none"
        /\ pc["main"] \notin {"callback", "checksend", "wait", "deferred"}
        /\ exit # "exit0"
        /\ \A i \in 1..Len(callbacks) : callbacks[i].status = "error"
        /\ Len(callbacks) <= 1
        /\ (cfg.callbackAddr # "" /\ exit = "die") =>
              /\ Len(callbacks) = 1
              /\ Len(Sent) = (IF callbacks[1].result = "dialErr" THEN 0 ELSE 1)

C9_Witness ==
    /\ cfg.protocol = "ftp"
    /\ cfg.callbackAddr # ""
    /\ dieMsg["main"] = "proto"
    /\ buildResult = "ok"
    /\ exit = "die"
    /\ Sent = <<[status |-> "error", from |-> "main", result |-> "ok"]>>

\* C10: whenever the process has stopped (Run returned, or die was called)
\* with a cache directory that Run generated, os.RemoveAll of that directory
\* has been called.
C10_AutoCacheRemovedAtStop ==
    (Stopped /\ autoCache) => cacheRemoved

\* the failures of configuration: cache directory, listen address, protocol
ConfigErrors == {"isdir", "mkdir", "listen", "proto"}

\* C12: a configuration error (unknown protocol, unusable cache directory,
\* unbindable listen address) is detected before any network service is
\* exposed: when main has detected one, the listen socket has never been
\* bound, the index build has never been started and no adapter has been
\* started.
C12_ConfigErrorBeforeExposure ==
    dieMsg["main"] \in ConfigErrors =>
        /\ listener = "none"
        /\ buildResult = "none"
        /\ adapter = "none"

\* the phase of the mount server, numbered in the order of the state machine:
\* 1 Initializing, 2 Building-Index, 3 Serving, 4 Draining, 5 Stopped (the
\* process has exited or is on its way out through dieWithCallback / die)
Phase ==
    IF exit # "running" \/ pc["main"] \in {"dwc", "die"} THEN 5
    ELSE IF pc["main"] \in {"logging", "cachedir", "isdir", "mkdir"} THEN 1
    ELSE IF pc["main"] \in {"listen", "build", "building", "signal"} THEN 2
    ELSE IF pc["main"] \in {"proto", "callback", "checksend", "wait"} THEN 3
    ELSE 4

\* C14: the phases occur only in the order Initializing, Building-Index,
\* Serving, Draining, Stopped: every step keeps the phase, moves to the next
\* one, or fails straight to Stopped; and the listen socket is bound before
\* the Tree build starts: the build is started only with the listener bound.
C14_PhaseOrderListenFirst ==
    /\ [][Phase' = Phase \/ Phase' = Phase + 1 \/ Phase' = 5]_vars
    /\ [][(buildResult = "none" /\ buildResult' # "none") =>
              (listener = "bound" /\ Phase = 2)]_vars
    /\ [](buildResult # "none" => listener = "bound")

\* a run that went through every phase and returned
C14_Witness ==
    /\ exit = "exit0"
    /\ Phase = 5
    /\ listener = "bound"
    /\ buildResult = "ok"
    /\ adapter # "none"
    /\ ctxDone


\* the success callback has been sent (sendCallback was called with it)
SuccessSent == \E i \in 1..Len(callbacks) : callbacks[i].status = "success"

\* C15: at most one protocol adapter is started, on the bound listener: the
\* adapter, once started, is never replaced or joined by another, its
\* goroutine is launched only with the listener bound, and it is the one the
\* configuration selects; and whenever the success callback has been sent,
\* exactly one adapter has been launched against that listener.
C15_ExactlyOneAdapter ==
    /\ [][adapter # "none" => adapter' = adapter]_vars
    /\ [][pc["adapter"] # "none" => pc'["adapter"] # "none"]_vars
    /\ [](adapter # "none" <=> pc["adapter"] # "none")
    /\ [](adapter # "none" =>
              /\ adapter \in {"nfs", "webdav"}
              /\ adapter = cfg.protocol
              /\ listener = "bound")
    /\ [](SuccessSent => (adapter \in {"nfs", "webdav"} /\ listener = "bound"))

\* the webdav adapter is serving and the success callback has been sent
C15_Witness ==
    /\ SuccessSent
    /\ adapter = "webdav"
    /\ pc["adapter"] = "serving"
    /\ pc["main"] = "wait"
    /\ listener = "bound"


\* main is blocked on, or just past, <-ctx.Done() with the adapter running
Waiting == exit = "running" /\ pc["main"] = "wait"

\* C16: once the server is Serving, an interrupt cancels the top-level
\* context, without ending the process and without touching the adapter
\* goroutine; main leaves <-ctx.Done() only into Draining and only once the
\* context is cancelled, and with the context cancelled the server
\* eventually reaches Draining and then Stopped; with no interrupt the
\* server stays in Serving unless the adapter fails.
C16_InterruptDrains ==
    /\ [][(Phase = 3 /\ Interrupt) =>
              (ctxDone' /\ exit' = "running" /\ pc' = pc /\ adapter' = adapter)]_vars
    /\ [][(Waiting /\ pc'["main"] # "wait") =>
              /\ ctxDone
              /\ pc'["main"] = "deferred"
              /\ pc'["adapter"] = pc["adapter"]]_vars
    /\ [][(Waiting /\ ~ctxDone /\ ~ctxDone') =>
              /\ pc'["main"] = "wait"
              /\ exit' # "running" => dieMsg["adapter"] = "serve"]_vars
    /\ ((Waiting /\ ctxDone) ~> (Phase >= 4))
    /\ ((Phase = 4) ~> (Phase = 5))

\* the interrupt arrived while serving: main has stopped waiting and is
\* about to run its deferred calls, and the adapter goroutine still serves
C16_Witness ==
    /\ exit = "running"
    /\ pc["main"] = "deferred"
    /\ ctxDone /\ sigRegistered
    /\ Len(defers) > 0 /\ defers[Len(defers)] = "cancelFn"
    /\ pc["adapter"] = "serving"


\* C17: an interrupt received while the index build is running cancels the
\* context the build runs under, so that the build can observe the
\* cancellation and abort: the interrupt leaves the process running with its
\* context cancelled.
C17_InterruptCancelsBuild ==
    [][(buildResult = "running" /\ Interrupt) =>
           (ctxDone' /\ exit' = "running")]_vars


\* C20: main and the adapter goroutine do not interfere through err: main
\* gives up with "could not send listen address back to caller" only when
\* its own sendCallback failed, and the goroutine reports a serve failure
\* only when Serve itself returned an error, and ends quietly only when
\* Serve returned none.
C20_NoInterferenceThroughErr ==
    /\ dieMsg["main"] = "sendback" =>
           \E i \in 1..Len(callbacks) :
               /\ callbacks[i].status = "success"
               /\ callbacks[i].result # "ok"
    /\ dieMsg["adapter"] = "serve" => serveResult = "serveErr"
    /\ pc["adapter"] = "ended" => serveResult = "nil"

=============================================================================
